---- MODULE Spec2Model ----
(***************************************************************************)
(* satin.py: saturated-gain laser amplifier batch.                         *)
(*                                                                         *)
(*   EXPR1, calculate_output_power : the numerical core (SpecInteg)        *)
(*   gaussian_calculation          : process-pool fan-out/fan-in (SpecGauss)*)
(*   Satin.calculate, process      : per-laser thread pool (Spec)          *)
(*                                                                         *)
(* Python floats are modelled as fixed-point numbers with the IEEE special *)
(* values: a float is [k |-> "fin", v |-> n], PosInf, NegInf or NaN.       *)
(* Dimensionless quantities (the correction table, the per-step factor,    *)
(* the radial weight) carry ONE = 10^6 units per 1.0; intensities and      *)
(* powers carry UNIT = 10^3 units per watt.  A finite result whose         *)
(* magnitude exceeds FloatMax becomes an infinity, as a double does above  *)
(* 1.797e308; an int above FloatMax cannot be converted to a float.        *)
(***************************************************************************)
EXTENDS Integers, Sequences, FiniteSets, TLC

VARIABLES
    \* ---- calculate_output_power (one integrator call, stepped) ----
    ipc,               \* "start" | "radial" | "long" | "done" | "raised"
    iargs,             \* [input_power, small_signal_gain, saturation_intensity]
    ri,                \* index into r_values
    j,                 \* index into EXPR1 (the inner loop's j)
    output_intensity,  \* float
    total,             \* float
    expr2,             \* the local expr2, ONE units
    iexc,              \* "none" or the exception the call raised
    \* ---- gaussian_calculation (one call) ----
    gpc,               \* "start" | "submit" | "wait" | "collect" | "returned" | "raised"
    gargs,             \* [input_powers, small_signal_gain]
    tasks,             \* the list of (input_power, small_signal_gain, sat_intensity)
    futures,           \* one future per task, in submission order
    gresult,           \* the returned list of Gaussian records
    gexc,              \* "none" or the exception the call raised
    overtaken,         \* history: some task completed before an earlier-submitted one
    \* ---- Satin.calculate (one run) ----
    cpc,               \* "start" | "pins" | "read" | "submit" | "collect" | "unwind"
                       \*   | "done" | "aborted" | "raised"
    env,               \* the files found: laser.dat, pin.dat, unwritable output paths
    input_powers,      \* the list _get_input_powers returned
    laser_matches,     \* the list re.findall returned
    proc,              \* one future per submitted _process call
    ck,                \* the result loop's position in futures
    files,             \* output path -> the rows written to it in this run
    errors,            \* logging.error records, in order
    pool_tasks,        \* integrator tasks submitted to process pools so far
    cexc               \* "none" or the exception calculate raised

ivars == <<ipc, iargs, ri, j, output_intensity, total, expr2, iexc>>
gvars == <<gpc, gargs, tasks, futures, gresult, gexc, overtaken>>
cvars == <<cpc, env, input_powers, laser_matches, proc, ck, files, errors,
           pool_tasks, cexc>>

vars == <<ipc, iargs, ri, j, output_intensity, total, expr2, iexc,
          gpc, gargs, tasks, futures, gresult, gexc, overtaken,
          cpc, env, input_powers, laser_matches, proc, ck, files, errors,
          pool_tasks, cexc>>

----------------------------------------------------------------------------
(* Fixed-point floats *)

ONE  == 1000 * 1000
UNIT == 1000

\* Largest finite magnitude (in UNIT units): the model's DBL_MAX.
FloatMax == 1000000000

Fin(n) == [k |-> "fin", v |-> n]
PosInf == [k |-> "inf", v |-> 1]
NegInf == [k |-> "inf", v |-> -1]
NaN    == [k |-> "nan", v |-> 0]

Abs(n) == IF n < 0 THEN -n ELSE n
Sgn(n) == IF n < 0 THEN -1 ELSE IF n = 0 THEN 0 ELSE 1

\* (a * b) % c and (a * b) \div c for 0 <= a < c and b >= 0, computed by doubling
\* so that no intermediate exceeds 3 * c.
RECURSIVE MulRem(_, _, _)
MulRem(a, b, c) ==
    IF b = 0 THEN 0 ELSE (2 * MulRem(a, b \div 2, c) + (b % 2) * a) % c

RECURSIVE MulQuot(_, _, _)
MulQuot(a, b, c) ==
    IF b = 0 THEN 0
    ELSE 2 * MulQuot(a, b \div 2, c)
         + (2 * MulRem(a, b \div 2, c) + (b % 2) * a) \div c

\* floor(a * b / c) for a, b >= 0 and c > 0, free of overflow when the result fits.
MulDiv(a, b, c) == (a \div c) * b + MulQuot(a % c, b, c)

\* floor(a * b / ONE) for 0 <= a <= 2 * 10^9 and 0 <= b < 2 * 10^6, by splitting
\* both numbers at 1000 so that no intermediate overflows.
MulOne(a, b) ==
    (a \div 1000) * (b \div 1000)
    + ((a \div 1000) * (b % 1000) + (a % 1000) * (b \div 1000)
       + ((a % 1000) * (b % 1000)) \div 1000) \div 1000

\* Round a signed magnitude to a float: overflow gives the infinity of its sign.
Rounded(sign, mag) ==
    IF mag > FloatMax THEN (IF sign < 0 THEN NegInf ELSE PosInf)
    ELSE Fin(sign * mag)

\* x * f, for a float x and a finite factor f in ONE units (Python's float *).
FMul(x, f) ==
    CASE x.k = "nan" -> NaN
      [] x.k = "inf" -> IF f = 0 THEN NaN
                        ELSE IF Sgn(f) * x.v < 0 THEN NegInf ELSE PosInf
      [] OTHER       -> Rounded(Sgn(x.v) * Sgn(f), MulOne(Abs(x.v), Abs(f)))

\* x + y for floats (Python's float +).
FAdd(x, y) ==
    CASE x.k = "nan" \/ y.k = "nan" -> NaN
      [] x.k = "inf" /\ y.k = "inf" -> IF x.v = y.v THEN x ELSE NaN
      [] x.k = "inf" -> x
      [] y.k = "inf" -> y
      [] OTHER -> Rounded(Sgn(x.v + y.v), Abs(x.v + y.v))

----------------------------------------------------------------------------
(* Module constants, satin.py lines 14-29 *)

PI     == 3141593          \* math.pi, ONE units
RAD    == 180              \* 0.18, milli
RAD2   == RAD * RAD        \* 0.0324, ONE units
W1     == 300              \* 0.3, milli
DR     == 2000             \* 0.002, ONE units
DZ     == 40000            \* 0.04, ONE units
Lambda == 10600            \* LAMBDA = 0.0106, ONE units (LAMBDA is reserved in TLA+)
AREA   == MulDiv(PI, RAD2, ONE)              \* ONE units
Z1     == MulDiv(MulDiv(PI, W1 * W1, ONE), ONE, Lambda)   \* ONE units
Z12    == MulDiv(Z1, Z1, ONE)                \* ONE units
EXPR   == MulDiv(2 * PI, DR, ONE)            \* ONE units
INCR   == 8001

\* (i - INCR // 2): the centred index; t = Centred(i) / 25.
CentredOff(i) == i - (INCR + 1) \div 2
Centred(i) == i - INCR \div 2

\* 2 * t * DZ / (Z12 + t ** 2) with t = k / 25, i.e. 50 k DZ / (625 Z12 + k^2),
\* rounded symmetrically about zero as IEEE arithmetic is.  ONE units.
Expr1Entry(i) ==
    LET k == Centred(i)
    IN  Sgn(k) * MulDiv(50 * Abs(k), DZ, MulDiv(Z12, 625, ONE) + k * k)

EXPR1 == [i \in 0 .. INCR - 1 |-> Expr1Entry(i)]

----------------------------------------------------------------------------
(* calculate_output_power, satin.py lines 191-209 *)

\* Radial samples taken by the modelled call (the code takes int(0.5 / DR) = 250).
NumRadial == 2

\* Input powers: 0, an ordinary one, one whose input intensity exceeds FloatMax,
\* one whose double (2 * input_power) no float can hold.
PowerZero   == 0
PowerNormal == 10
PowerHuge   == 60000
PowerTooBig == 600000
InputPowerValues == {PowerZero, PowerNormal, PowerHuge, PowerTooBig}

\* small_signal_gain in tenths, as float('NN.N') of the laser record.
GainValues == {184, 284}

\* saturation_intensities = list(range(10000, 25001, 1000))
SatFirst == 10000
SatStop  == 25001
SatStep  == 1000
saturation_intensities ==
    [n \in 1 .. ((SatStop - 1 - SatFirst) \div SatStep + 1) |-> SatFirst + (n - 1) * SatStep]

\* int -> float conversion of 2 * input_power: OverflowError above the float range.
IntTooLarge(n) == n * UNIT > FloatMax

\* input_intensity = 2 * input_power / AREA: the quotient overflows when
\* 2 * input_power exceeds AREA * FloatMax.
AreaTimesFloatMax == MulDiv(AREA, FloatMax, ONE)
IntensityOverflows(input_power) == 2 * input_power * UNIT > AreaTimesFloatMax
InputIntensity(input_power) ==
    IF IntensityOverflows(input_power) THEN PosInf
    ELSE Fin(MulDiv(2 * input_power * UNIT, ONE, AREA))

\* expr2 = saturation_intensity * small_signal_gain / 32000 * DZ   (ONE units)
Expr2(saturation_intensity, gain10) ==
    MulDiv(saturation_intensity * gain10, DZ, 10 * 32000)

\* math.exp(-x) for 0 <= x << 1 (x and the result in ONE units).
ExpNeg(x) == ONE - x + MulDiv(x, x, 2 * ONE)

\* r_values[i] = i * DR
RValue(i) == i * DR

\* exp_values[i] = input_intensity * math.exp(-2 * r ** 2 / RAD2)
ExpValue(input_power, i) ==
    FMul(InputIntensity(input_power),
         ExpNeg(MulDiv(2 * MulDiv(RValue(i), RValue(i), ONE), ONE, RAD2)))

\* saturation_intensity + output_intensity
Denominator(saturation_intensity, oi) == FAdd(Fin(saturation_intensity * UNIT), oi)

\* expr2 / (saturation_intensity + output_intensity), ONE units; the caller has
\* excluded a zero or NaN denominator.
GainTerm(e2, den) ==
    IF den.k = "inf" THEN 0
    ELSE Sgn(den.v) * ((e2 * UNIT) \div Abs(den.v))

\* 1 + expr2 / (saturation_intensity + output_intensity) - EXPR1[j]
Factor(e2, den, jj) == ONE + GainTerm(e2, den) - EXPR1[jj]

\* The variables of the other components, at rest.
GaussIdle ==
    /\ gpc = "idle"
    /\ gargs = [input_powers |-> [t |-> "list", v |-> <<>>], small_signal_gain |-> 0]
    /\ tasks = <<>> /\ futures = <<>> /\ gresult = <<>>
    /\ gexc = "none" /\ overtaken = FALSE

IntegIdle ==
    /\ ipc = "idle"
    /\ iargs = [input_power |-> 0, small_signal_gain |-> 0, saturation_intensity |-> 0]
    /\ ri = 0 /\ j = 0
    /\ output_intensity = Fin(0) /\ total = Fin(0) /\ expr2 = 0
    /\ iexc = "none"

CalcIdle ==
    /\ cpc = "idle"
    /\ env = [laser_file |-> FALSE, pin_file |-> FALSE, laser_data |-> <<>>,
              pin_data |-> <<>>, unwritable |-> {}]
    /\ input_powers = <<>> /\ laser_matches = <<>> /\ proc = <<>>
    /\ ck = 1 /\ files = <<>> /\ errors = <<>> /\ pool_tasks = 0
    /\ cexc = "none"

IntegInit ==
    /\ GaussIdle /\ CalcIdle
    /\ ipc = "start"
    /\ iargs \in [input_power : InputPowerValues,
                  small_signal_gain : GainValues,
                  saturation_intensity : {SatFirst, SatStop - 1}]
    /\ ri = 0 /\ j = 0
    /\ output_intensity = Fin(0) /\ total = Fin(0) /\ expr2 = 0
    /\ iexc = "none"

\* lines 195-200: input_intensity, expr2, r_values, exp_values, total = 0.0
IntegEnter ==
    /\ ipc = "start"
    /\ IF IntTooLarge(2 * iargs.input_power)
       THEN /\ ipc' = "raised" /\ iexc' = "OverflowError"
            /\ expr2' = expr2
       ELSE /\ ipc' = "radial" /\ iexc' = iexc
            /\ expr2' = Expr2(iargs.saturation_intensity, iargs.small_signal_gain)
    /\ UNCHANGED <<iargs, ri, j, output_intensity, total>>
    /\ UNCHANGED <<gvars, cvars>>

\* lines 201-202: next radial sample, or line 209: return total
RadialNext ==
    /\ ipc = "radial"
    /\ IF ri < NumRadial
       THEN /\ output_intensity' = ExpValue(iargs.input_power, ri)
            /\ j' = 0
            /\ ipc' = "long"
       ELSE /\ ipc' = "done"
            /\ UNCHANGED <<output_intensity, j>>
    /\ UNCHANGED <<iargs, ri, total, expr2, iexc>>
    /\ UNCHANGED <<gvars, cvars>>

\* lines 203-206: one pass of the inner loop
LongStep ==
    /\ ipc = "long"
    /\ j < INCR
    /\ LET den == Denominator(iargs.saturation_intensity, output_intensity)
       IN  IF den.k = "fin" /\ den.v = 0
           THEN /\ ipc' = "raised" /\ iexc' = "ZeroDivisionError"
                /\ UNCHANGED <<output_intensity, j>>
           ELSE /\ output_intensity' =
                      IF den.k = "nan" THEN NaN
                      ELSE FMul(output_intensity, Factor(expr2, den, j))
                /\ j' = j + 1
                /\ UNCHANGED <<ipc, iexc>>
    /\ UNCHANGED <<iargs, ri, total, expr2>>
    /\ UNCHANGED <<gvars, cvars>>

\* line 207: total += output_intensity * EXPR * r
RadialAccumulate ==
    /\ ipc = "long"
    /\ j = INCR
    /\ total' = FAdd(total, FMul(FMul(output_intensity, EXPR), RValue(ri)))
    /\ ri' = ri + 1
    /\ ipc' = "radial"
    /\ UNCHANGED <<iargs, j, output_intensity, expr2, iexc>>
    /\ UNCHANGED <<gvars, cvars>>

IntegNext == IntegEnter \/ RadialNext \/ LongStep \/ RadialAccumulate

SpecInteg == IntegInit /\ [][IntegNext]_vars

----------------------------------------------------------------------------
(* gaussian_calculation, satin.py lines 170-188 *)

\* Bounds: the longest input_powers list, and multiprocessing.cpu_count().
MaxPowers  == 2
NumWorkers == 2

\* What one call of calculate_output_power yields: the exception it raises, or
\* the float it returns, tagged with the arguments it was computed from.
\*   2 * input_power beyond the float range : OverflowError       (line 195)
\*   infinite input intensity               : inf * EXPR * 0.0 = nan (line 207)
\*   input_power = 0                        : 0.0
Outcome(task) ==
    LET kind == CASE IntTooLarge(2 * task[1]) -> "none"
                  [] IntensityOverflows(task[1]) -> "nan"
                  [] task[1] = 0 -> "zero"
                  [] OTHER -> "pos"
    IN  [exc |-> IF IntTooLarge(2 * task[1]) THEN "OverflowError" ELSE "none",
         kind |-> kind,
         of |-> task]

\* lines 174-179: tasks, input power major, saturation intensity minor.
NumSat == Len(saturation_intensities)
TaskList(powers, gain) ==
    [n \in 1 .. Len(powers) * NumSat |->
        <<powers[((n - 1) \div NumSat) + 1],
          gain,
          saturation_intensities[((n - 1) % NumSat) + 1]>>]

Pending == [st |-> "pending", exc |-> "none", kind |-> "none", of |-> <<>>]

\* A worker has run the task: its future holds the result or the exception.
Done(o) == [st |-> "done", exc |-> o.exc, kind |-> o.kind, of |-> o.of]
ResolvedLost(task) ==
    IF Outcome(task).exc = "none" THEN Done(Outcome(task)) ELSE Pending
Resolved(task) == Done(Outcome(task))

\* line 183: wait(futures, return_when=ALL_COMPLETED)
AllCompleted(fs) == \A n \in 1 .. Len(fs) : fs[n].st = "done"

\* line 187: the future zipped with the n-th task.
ZippedReversed(fs, n) == fs[Len(fs) + 1 - n]
Zipped(fs, n) == fs[n]

\* The lowest index whose future.result() raises, 0 when none does.
FirstFailed(fs) ==
    IF \E n \in 1 .. Len(fs) : fs[n].exc # "none"
    THEN CHOOSE n \in 1 .. Len(fs) :
            /\ fs[n].exc # "none"
            /\ \A m \in 1 .. n - 1 : fs[m].exc = "none"
    ELSE 0

\* lines 185-188: [Gaussian(input_power, future.result(), sat_intensity) ...]
Gaussian(input_power, output_power, saturation_intensity) ==
    [input_power |-> input_power,
     output_power |-> output_power,
     saturation_intensity |-> saturation_intensity]

Collected(ts, fs) ==
    [n \in 1 .. Len(ts) |->
        Gaussian(ts[n][1],
                 [kind |-> Zipped(fs, n).kind, of |-> Zipped(fs, n).of],
                 ts[n][3])]

\* gaussian_calculation as _process sees it: the rows, or the exception of the
\* first future (in submission order) whose result() raises.
GaussianCalculation(powers, gain) ==
    LET ts == TaskList(powers, gain)
        fs == [n \in 1 .. Len(ts) |-> Resolved(ts[n])]
    IN  IF FirstFailed(fs) = 0
        THEN [exc |-> "none", rows |-> Collected(ts, fs)]
        ELSE [exc |-> fs[FirstFailed(fs)].exc, rows |-> <<>>]

PowerLists(values) == UNION {[1 .. n -> values] : n \in 0 .. MaxPowers}

\* A call with a list of input powers (as _process calls) or with a single
\* integer (as test_gaussian_calculation calls).
GaussStart(values) ==
    /\ IntegIdle /\ CalcIdle
    /\ gpc = "start"
    /\ gargs \in [input_powers : [t : {"list"}, v : PowerLists(values)]
                                   \cup [t : {"int"}, v : values],
                  small_signal_gain : {284}]
    /\ tasks = <<>> /\ futures = <<>> /\ gresult = <<>>
    /\ gexc = "none" /\ overtaken = FALSE

GaussInit == GaussStart({PowerNormal, PowerHuge, PowerTooBig})
GaussInitFair == GaussStart({PowerNormal, PowerTooBig})

\* lines 174-179: iterating input_powers; an int is not iterable.
GaussEnter ==
    /\ gpc = "start"
    /\ IF gargs.input_powers.t = "list"
       THEN /\ tasks' = TaskList(gargs.input_powers.v, gargs.small_signal_gain)
            /\ gpc' = "submit"
            /\ gexc' = gexc
       ELSE /\ gpc' = "raised"
            /\ gexc' = "TypeError"
            /\ tasks' = tasks
    /\ UNCHANGED <<gargs, futures, gresult, overtaken>>
    /\ UNCHANGED <<ivars, cvars>>

\* line 182: one future per task.
GaussSubmit ==
    /\ gpc = "submit"
    /\ futures' = [n \in 1 .. Len(tasks) |-> Pending]
    /\ gpc' = "wait"
    /\ UNCHANGED <<gargs, tasks, gresult, gexc, overtaken>>
    /\ UNCHANGED <<ivars, cvars>>

\* A pool worker runs task n.  The pool hands tasks out in submission order to
\* NumWorkers workers, so fewer than NumWorkers unfinished tasks precede n.
WorkerRun(n) ==
    /\ gpc = "wait"
    /\ futures[n].st = "pending"
    /\ Cardinality({m \in 1 .. n - 1 : futures[m].st = "pending"}) < NumWorkers
    /\ futures' = [futures EXCEPT ![n] = Resolved(tasks[n])]
    /\ overtaken' = (overtaken \/ \E m \in 1 .. n - 1 : futures[m].st = "pending")
    /\ UNCHANGED <<gpc, gargs, tasks, gresult, gexc>>
    /\ UNCHANGED <<ivars, cvars>>

\* line 183 returns, and the with block shuts the pool down.
GaussWait ==
    /\ gpc = "wait"
    /\ AllCompleted(futures)
    /\ gpc' = "collect"
    /\ UNCHANGED <<gargs, tasks, futures, gresult, gexc, overtaken>>
    /\ UNCHANGED <<ivars, cvars>>

\* lines 185-188: future.result() re-raises the task's exception.
GaussCollect ==
    /\ gpc = "collect"
    /\ IF FirstFailed(futures) = 0
       THEN /\ gresult' = Collected(tasks, futures)
            /\ gpc' = "returned"
            /\ gexc' = gexc
       ELSE /\ gexc' = futures[FirstFailed(futures)].exc
            /\ gpc' = "raised"
            /\ gresult' = gresult
    /\ UNCHANGED <<gargs, tasks, futures, overtaken>>
    /\ UNCHANGED <<ivars, cvars>>

GaussNext ==
    \/ GaussEnter
    \/ GaussSubmit
    \/ \E n \in 1 .. Len(futures) : WorkerRun(n)
    \/ GaussWait
    \/ GaussCollect

SpecGauss == GaussInit /\ [][GaussNext]_vars

\* The operating system schedules the main process and the pool's workers:
\* a step that stays possible is eventually taken.
SpecGaussFair == GaussInitFair /\ [][GaussNext]_vars /\ WF_vars(GaussNext)

----------------------------------------------------------------------------
(* Claims about gaussian_calculation *)

GridPowers == gargs.input_powers.v

\* The call as _process sees it (GaussianCalculation, used by the batch model)
\* agrees with the stepped pool: same rows, same exception.
GaussianCalculationAgrees ==
    (gargs.input_powers.t = "list" /\ gpc \in {"returned", "raised"}) =>
        LET gc == GaussianCalculation(GridPowers, gargs.small_signal_gain)
        IN  /\ gexc = gc.exc
            /\ gresult = gc.rows
            /\ gpc = "returned" <=> gc.exc = "none"

\* C1: whatever order the pool's tasks complete in, the returned list is in
\* submission order (input power major in the order given, saturation
\* intensity ascending 10000..25000 within each), and row n carries the value
\* computed from row n's own (input power, gain, saturation intensity).
C1_SubmissionOrder ==
    gpc = "returned" =>
        /\ Len(gresult) = Len(GridPowers) * NumSat
        /\ \A n \in 1 .. Len(gresult) :
             LET p == ((n - 1) \div NumSat) + 1
                 s == ((n - 1) % NumSat) + 1
             IN  /\ gresult[n].input_power = GridPowers[p]
                 /\ gresult[n].saturation_intensity = SatFirst + (s - 1) * SatStep
                 /\ gresult[n].output_power.of =
                        <<GridPowers[p], gargs.small_signal_gain,
                          SatFirst + (s - 1) * SatStep>>
                 /\ gresult[n].output_power.kind =
                        Outcome(gresult[n].output_power.of).kind

\* C1 witness: a call over two different input powers returned after some task
\* had completed before an earlier-submitted one.
C1_Witness ==
    /\ gpc = "returned"
    /\ overtaken
    /\ Len(GridPowers) = 2
    /\ GridPowers[1] # GridPowers[2]

\* C5: when a worker task fails the pool does not deadlock: every submitted
\* future resolves (with a result or with an error), the tasks after the failed
\* one still run, and gaussian_calculation returns or raises.
C5_NoDeadlock ==
    <>(/\ gpc \in {"returned", "raised"}
       /\ \A n \in 1 .. Len(futures) : futures[n].st = "done")

\* C5 witness: the first input power's tasks failed, the tasks submitted after
\* them still ran to a result, and the call raised the first task's error.
C5_Witness ==
    /\ gpc = "raised"
    /\ gexc = "OverflowError"
    /\ Len(futures) = 2 * NumSat
    /\ futures[1].st = "done" /\ futures[1].exc = "OverflowError"
    /\ futures[Len(futures)].st = "done"
    /\ futures[Len(futures)].exc = "none"
    /\ futures[Len(futures)].kind = "pos"

\* C7: called with a single integer input power, as test_gaussian_calculation
\* calls it, gaussian_calculation returns exactly 16 Gaussian records, one per
\* saturation intensity of the grid, each carrying that input power.
C7_SingleIntegerPower ==
    (gargs.input_powers.t = "int" /\ gpc \in {"returned", "raised"}) =>
        /\ gpc = "returned"
        /\ Len(gresult) = NumSat
        /\ \A s \in 1 .. NumSat :
              Cardinality({n \in 1 .. Len(gresult) :
                  /\ gresult[n].saturation_intensity = saturation_intensities[s]
                  /\ gresult[n].input_power = gargs.input_powers.v}) = 1

----------------------------------------------------------------------------
(* Satin.calculate and _process, satin.py lines 94-167 *)

\* Bound: the number of records in laser.dat.
MaxLasers == 3

\* str(g), lines 55-76: math.log(output_power / input_power) divides by the
\* input power and takes the log of the quotient.
StrExc(g) ==
    CASE g.input_power = 0 -> "ZeroDivisionError"
      [] g.output_power.kind \in {"zero", "neg"} -> "ValueError"
      [] OTHER -> "none"

FirstUnformattable(rows) ==
    IF \E n \in 1 .. Len(rows) : StrExc(rows[n]) # "none"
    THEN CHOOSE n \in 1 .. Len(rows) :
            /\ StrExc(rows[n]) # "none"
            /\ \A m \in 1 .. n - 1 : StrExc(rows[m]) = "none"
    ELSE 0

\* lines 159-162: ''.join(str(g) for g in gaussian_calculation(...))
GaussianLinesPermissive(powers, gain) ==
    LET gc == GaussianCalculation(powers, gain)
    IN  [exc |-> gc.exc,
         rows |-> SelectSeq(gc.rows, LAMBDA g : StrExc(g) = "none")]
GaussianLines(powers, gain) ==
    LET gc == GaussianCalculation(powers, gain)
    IN  IF gc.exc # "none" THEN gc
        ELSE IF FirstUnformattable(gc.rows) = 0 THEN gc
        ELSE [exc |-> StrExc(gc.rows[FirstUnformattable(gc.rows)]), rows |-> <<>>]

\* line 125: except (RuntimeError, IOError, ValueError); IOError is OSError.
Caught(exc) == exc \in {"RuntimeError", "OSError", "ValueError"}

\* line 105: the gain field matches \d{2}\.\d between the whitespace runs.
Digits == {"0", "1", "2", "3", "4", "5", "6", "7", "8", "9"}
DigitValue(c) ==
    CASE c = "0" -> 0 [] c = "1" -> 1 [] c = "2" -> 2 [] c = "3" -> 3
      [] c = "4" -> 4 [] c = "5" -> 5 [] c = "6" -> 6 [] c = "7" -> 7
      [] c = "8" -> 8 [] c = "9" -> 9
GainMatches(text) ==
    /\ Len(text) = 4
    /\ text[1] \in Digits /\ text[2] \in Digits
    /\ text[3] = "."
    /\ text[4] \in Digits

\* line 114: float(laser[1]), in tenths.
GainOf(text) ==
    100 * DigitValue(text[1]) + 10 * DigitValue(text[2]) + DigitValue(text[4])

\* lines 104-106: re.findall keeps the records the pattern matches.
FindAll(laser_data) == SelectSeq(laser_data, LAMBDA r : GainMatches(r.gain))

\* line 136: int(match.group()) for every run of digits: a sign is no digit.
IntsOf(pin_data) == [n \in 1 .. Len(pin_data) |-> Abs(pin_data[n])]

\* lines 101 and 135: open() of a missing file raises FileNotFoundError.
OpenNeverFails(exists) == FALSE
OpenFails(exists) == ~exists

OutputFiles == <<"mdaa.out", "piab.out", "mdac.out", "piad.out">>
GainTexts == {<<"2", "8", ".", "4">>, <<"-", "8", ".", "4">>}
PinValues == InputPowerValues

LaserData ==
    UNION {{[n \in 1 .. len |->
               [output_file |-> OutputFiles[n], gain |-> g[n],
                discharge_pressure |-> 100, carbon_dioxide |-> "MD"]] :
            g \in [1 .. len -> GainTexts]} : len \in 1 .. MaxLasers}
PinData == UNION {[1 .. n -> PinValues] : n \in 0 .. MaxPowers}

NoFile == [written |-> FALSE, rows |-> <<>>]
Queued == [st |-> "queued", exc |-> "none"]

Init ==
    /\ IntegIdle /\ GaussIdle
    /\ cpc = "start"
    /\ env \in [laser_file : BOOLEAN, pin_file : BOOLEAN,
                laser_data : LaserData, pin_data : PinData,
                unwritable : {{}, {OutputFiles[1]}}]
    /\ input_powers = <<>> /\ laser_matches = <<>> /\ proc = <<>>
    /\ ck = 1
    /\ files = [f \in {OutputFiles[n] : n \in 1 .. Len(OutputFiles)} |-> NoFile]
    /\ errors = <<>> /\ pool_tasks = 0
    /\ cexc = "none"

\* line 101: with open(LASER_FILE)
OpenLaserFile ==
    /\ cpc = "start"
    /\ IF OpenFails(env.laser_file)
       THEN /\ cpc' = "aborted" /\ cexc' = "FileNotFoundError"
       ELSE /\ cpc' = "pins" /\ cexc' = cexc
    /\ UNCHANGED <<env, input_powers, laser_matches, proc, ck, files, errors,
                   pool_tasks>>
    /\ UNCHANGED <<ivars, gvars>>

\* line 102 and lines 131-136: _get_input_powers()
GetInputPowers ==
    /\ cpc = "pins"
    /\ IF OpenFails(env.pin_file)
       THEN /\ cpc' = "aborted" /\ cexc' = "FileNotFoundError"
            /\ input_powers' = input_powers
       ELSE /\ cpc' = "read" /\ cexc' = cexc
            /\ input_powers' = IntsOf(env.pin_data)
    /\ UNCHANGED <<env, laser_matches, proc, ck, files, errors, pool_tasks>>
    /\ UNCHANGED <<ivars, gvars>>

\* lines 103-106: laser_file.read() and re.findall
ReadLasers ==
    /\ cpc = "read"
    /\ laser_matches' = FindAll(env.laser_data)
    /\ cpc' = "submit"
    /\ UNCHANGED <<env, input_powers, proc, ck, files, errors, pool_tasks, cexc>>
    /\ UNCHANGED <<ivars, gvars>>

\* lines 109-119: executor.submit(_process, input_powers, Laser(...)), one
\* laser at a time; the comprehension ends after the last match.
Submit ==
    /\ cpc = "submit"
    /\ IF Len(proc) < Len(laser_matches)
       THEN /\ proc' = Append(proc, Queued)
            /\ cpc' = cpc
       ELSE /\ cpc' = "collect"
            /\ proc' = proc
    /\ UNCHANGED <<env, input_powers, laser_matches, ck, files, errors,
                   pool_tasks, cexc>>
    /\ UNCHANGED <<ivars, gvars>>

\* lines 139-167: _process(input_powers, laser) on a pool thread.  The lines
\* are joined before write_text is called, and write_text raises OSError when
\* the path cannot be written.
Process(n) ==
    /\ cpc \in {"submit", "collect", "unwind"}
    /\ n \in 1 .. Len(proc)
    /\ proc[n].st = "queued"
    /\ LET laser == laser_matches[n]
           lines == GaussianLines(input_powers, GainOf(laser.gain))
           exc   == IF lines.exc # "none" THEN lines.exc
                    ELSE IF laser.output_file \in env.unwritable THEN "OSError"
                    ELSE "none"
       IN  /\ proc' = [proc EXCEPT ![n] = [st |-> "done", exc |-> exc]]
           /\ files' = IF exc = "none"
                       THEN [files EXCEPT ![laser.output_file] =
                                [written |-> TRUE, rows |-> lines.rows]]
                       ELSE files
           /\ pool_tasks' = pool_tasks + Len(input_powers) * NumSat
    /\ UNCHANGED <<cpc, env, input_powers, laser_matches, ck, errors, cexc>>
    /\ UNCHANGED <<ivars, gvars>>

\* lines 121-126: future.result() of the next future, in submission order.
Collect ==
    /\ cpc = "collect"
    /\ ck <= Len(proc)
    /\ proc[ck].st = "done"
    /\ IF proc[ck].exc = "none"
       THEN /\ ck' = ck + 1
            /\ UNCHANGED <<cpc, errors, cexc>>
       ELSE IF Caught(proc[ck].exc)
       THEN /\ errors' = Append(errors, [laser |-> laser_matches[ck].output_file,
                                         exc |-> proc[ck].exc])
            /\ ck' = ck + 1
            /\ UNCHANGED <<cpc, cexc>>
       ELSE /\ cpc' = "unwind"
            /\ cexc' = proc[ck].exc
            /\ UNCHANGED <<ck, errors>>
    /\ UNCHANGED <<env, input_powers, laser_matches, proc, files, pool_tasks>>
    /\ UNCHANGED <<ivars, gvars>>

\* An exception leaving the executor's with block: shutdown(wait=True) joins
\* the pool's threads, then the exception leaves calculate.
Unwind ==
    /\ cpc = "unwind"
    /\ \A n \in 1 .. Len(proc) : proc[n].st = "done"
    /\ cpc' = "raised"
    /\ UNCHANGED <<env, input_powers, laser_matches, proc, ck, files, errors,
                   pool_tasks, cexc>>
    /\ UNCHANGED <<ivars, gvars>>

\* line 128: after the loop, logging.info('The time was ...')
LogTime ==
    /\ cpc = "collect"
    /\ ck > Len(proc)
    /\ cpc' = "done"
    /\ UNCHANGED <<env, input_powers, laser_matches, proc, ck, files, errors,
                   pool_tasks, cexc>>
    /\ UNCHANGED <<ivars, gvars>>

Next ==
    \/ OpenLaserFile
    \/ GetInputPowers
    \/ ReadLasers
    \/ Submit
    \/ \E n \in 1 .. Len(proc) : Process(n)
    \/ Collect
    \/ Unwind
    \/ LogTime

Spec == Init /\ [][Next]_vars

----------------------------------------------------------------------------
(* Claims about Satin.calculate and _process *)

Matched(n) == laser_matches[n]
FileOf(n) == files[laser_matches[n].output_file]
Logged(n) == \E m \in 1 .. Len(errors) : errors[m].laser = laser_matches[n].output_file
Written == {f \in DOMAIN files : files[f].written}

\* C2: a failure of one laser's _process, of any exception kind, does not abort
\* the batch: no exception leaves calculate, and at the elapsed-time report
\* every laser's future has been collected and a failure is logged for exactly
\* the lasers that failed.
C2_FailureIsolated ==
    /\ cpc \notin {"unwind", "raised"}
    /\ cpc = "done" =>
          \A n \in 1 .. Len(proc) :
              /\ proc[n].st = "done"
              /\ Logged(n) <=> proc[n].exc # "none"

\* C3: with 3 laser records of which exactly one has an invalid (negative)
\* small-signal gain, calculate writes the other 2 reports and reports exactly
\* 1 failure.
NegativeGain(r) == r.gain[1] = "-"
C3_InvalidGainReported ==
    (/\ cpc = "done"
     /\ Len(env.laser_data) = 3
     /\ Cardinality({n \in 1 .. 3 : NegativeGain(env.laser_data[n])}) = 1
     /\ env.unwritable = {}
     /\ Len(input_powers) >= 1
     /\ \A n \in 1 .. Len(input_powers) : input_powers[n] = PowerNormal)
    => /\ Cardinality(Written) = 2
       /\ Len(errors) = 1

\* C4: when laser.dat or pin.dat is missing, calculate aborts with the error
\* before any _process task is submitted to the thread pool and before any
\* integrator task is submitted to a process pool, and writes no output file.
C4_MissingFileAbortsFirst ==
    (~env.laser_file \/ ~env.pin_file) =>
        /\ cpc \in {"start", "pins", "aborted"}
        /\ cpc = "aborted" => cexc = "FileNotFoundError"
        /\ Len(proc) = 0
        /\ pool_tasks = 0
        /\ Written = {}

\* C4 witness: laser.dat was opened, pin.dat is missing, and the run aborted
\* although laser.dat held records to dispatch.
C4_Witness ==
    /\ cpc = "aborted"
    /\ env.laser_file /\ ~env.pin_file
    /\ FindAll(env.laser_data) # <<>>

\* C6: a non-finite or negative output power of a grid point is reported as an
\* error for its laser and grid point, and is never written to the report as
\* an ordinary row.
Unphysical(g) == g.output_power.kind \in {"nan", "inf", "neg"}
C6_NonFiniteSurfaced ==
    \A n \in 1 .. Len(proc) :
        proc[n].st = "done" =>
            LET gc == GaussianCalculation(input_powers, GainOf(Matched(n).gain))
            IN  \A m \in 1 .. Len(gc.rows) :
                    Unphysical(gc.rows[m]) =>
                        /\ ~(FileOf(n).written
                             /\ \E q \in 1 .. Len(FileOf(n).rows) :
                                    FileOf(n).rows[q] = gc.rows[m])
                        /\ cpc = "done" => Logged(n)

\* C10: a laser's report is all-or-nothing.  A written report holds every row
\* of every (input power, saturation intensity) task, in order, and was written
\* only after all of them were computed and formatted without error; when a
\* computation or a row's formatting raised, the error is the outcome of
\* _process and no file was written for that laser.
C10_AllOrNothing ==
    /\ \A f \in Written : \E n \in 1 .. Len(proc) : Matched(n).output_file = f
    /\ \A n \in 1 .. Len(proc) :
          LET gc == GaussianCalculation(input_powers, GainOf(Matched(n).gain))
              bad == gc.exc # "none"
                     \/ \E m \in 1 .. Len(gc.rows) : StrExc(gc.rows[m]) # "none"
          IN  /\ FileOf(n).written =>
                    /\ ~bad
                    /\ proc[n] = [st |-> "done", exc |-> "none"]
                    /\ FileOf(n).rows = gc.rows
                    /\ Len(FileOf(n).rows) = Len(input_powers) * NumSat
              /\ (proc[n].st = "done" /\ bad) =>
                    /\ ~FileOf(n).written
                    /\ proc[n].exc \in {"OverflowError", "ZeroDivisionError",
                                        "ValueError"}

\* C10 witness: the second input power's first row could not be formatted
\* after the first input power's 16 rows had been; _process raised and left no
\* file.
C10_Witness ==
    /\ Len(input_powers) = 2
    /\ input_powers[1] = PowerNormal /\ input_powers[2] = PowerZero
    /\ \E n \in 1 .. Len(proc) :
          /\ proc[n] = [st |-> "done", exc |-> "ZeroDivisionError"]
          /\ ~FileOf(n).written

----------------------------------------------------------------------------
(* Claims about EXPR1 and calculate_output_power *)

\* The summary of a call used by the pool and batch models agrees with the
\* stepped call: same exception, same kind of result.
KindOf(x) ==
    CASE x.k = "nan" -> "nan"
      [] x.k = "inf" -> "inf"
      [] x.v < 0 -> "neg"
      [] x.v = 0 -> "zero"
      [] OTHER -> "pos"

OutcomeAgrees ==
    LET o == Outcome(<<iargs.input_power, iargs.small_signal_gain,
                       iargs.saturation_intensity>>)
    IN  /\ ipc = "raised" => (iexc = o.exc /\ iexc # "none")
        /\ ipc = "done" => (o.exc = "none" /\ KindOf(total) = o.kind)

\* C8: the correction table has exactly INCR = 8001 entries (indices 0 .. 8000)
\* and is antisymmetric about its midpoint: entry i = -entry (INCR - 1 - i) for
\* the entry i each inner-loop pass reads, entry 0 = -entry 8000, and the
\* middle entry is 0.  The table is a constant of the module: no step of any
\* call writes it.
C8_TableAntisymmetric ==
    /\ INCR = 8001
    /\ 0 \in DOMAIN EXPR1 /\ INCR - 1 \in DOMAIN EXPR1
    /\ -1 \notin DOMAIN EXPR1 /\ INCR \notin DOMAIN EXPR1
    /\ EXPR1[0] = -EXPR1[INCR - 1]
    /\ EXPR1[0] # 0
    /\ EXPR1[INCR \div 2] = 0
    /\ (ipc = "long" /\ j < INCR) =>
          /\ j \in DOMAIN EXPR1
          /\ INCR - 1 - j \in DOMAIN EXPR1
          /\ EXPR1[j] = -EXPR1[INCR - 1 - j]

\* C8 witness: an integrator call has read the whole table and returned.
C8_Witness ==
    /\ ipc = "done"
    /\ j = INCR
    /\ total.k = "fin" /\ total.v > 0

\* C9: for positive input power, gain and saturation intensity the factor
\* 1 + expr2 / (saturation_intensity + output_intensity) - EXPR1[j] is positive
\* at every step, output_intensity is never negative, the denominator is never
\* zero, and the output power returned is finite and >= 0.
C9_OutputFiniteNonNegative ==
    (iargs.input_power > 0 /\ iargs.small_signal_gain > 0
        /\ iargs.saturation_intensity > 0) =>
        /\ (ipc = "long" /\ j < INCR) =>
              LET den == Denominator(iargs.saturation_intensity, output_intensity)
              IN  /\ output_intensity.k # "nan"
                  /\ output_intensity.v >= 0
                  /\ ~(den.k = "fin" /\ den.v = 0)
                  /\ Factor(expr2, den, j) > 0
        /\ ipc = "done" => (total.k = "fin" /\ total.v >= 0)

====
